---- MODULE Spec2Model ----
(***************************************************************************)
(* A model of the announcement scraper of src/app.py: the date parser      *)
(* parse_taiwan_date, the two site adapters _parse_xingya and _parse_nss,  *)
(* the pagination and filter loop of SchoolScraper.fetch_data, and the     *)
(* module-level loop that merges the sites' results and sorts them.        *)
(*                                                                         *)
(* Text is modelled as a sequence of characters (one string per character, *)
(* written in pinyin: "yu","qiu" is the keyword U+7FBD U+7403).  A url is  *)
(* the pair <<origin, path-and-query>>; None is the empty tuple.  A point  *)
(* in time is a number of half days since 0001-01-01 00:00 Taipei time, so *)
(* that a parsed date (always midnight) can be compared with a current     *)
(* time that is or is not exactly midnight.                                *)
(***************************************************************************)
EXTENDS Integers, Sequences, FiniteSets, TLC

None == <<>>

----------------------------------------------------------------------------
(* Text helpers: Python's `needle in text` and len().                      *)

\* `needle in text` for str: needle occurs as a contiguous run of text.
Contains(text, needle) ==
    \E i \in 0..(Len(text) - Len(needle)) :
        \A j \in 1..Len(needle) : text[i + j] = needle[j]

\* str.lower() on the url schemes used below (only ASCII letters change).
Lower(s) ==
    CASE s = "JavaScript:" -> "javascript:"
      [] OTHER -> s

----------------------------------------------------------------------------
(* parse_taiwan_date.  A date text is [ydigits, sep, y, m, d]: a year of   *)
(* ydigits digits, a separator, a two digit month and a two digit day; the *)
(* text without any date shape is NoDateText.                              *)

NoDateText == [ydigits |-> 0, sep |-> "", y |-> 0, m |-> 0, d |-> 0]

MINGUO_OFFSET == 1911

IsLeap(y) == (y % 4 = 0) /\ ((y % 100 # 0) \/ (y % 400 = 0))

DaysInMonth(y, m) ==
    CASE m \in {1, 3, 5, 7, 8, 10, 12} -> 31
      [] m \in {4, 6, 9, 11} -> 30
      [] OTHER -> IF IsLeap(y) THEN 29 ELSE 28

RECURSIVE DaysBeforeMonth(_, _)
DaysBeforeMonth(y, m) ==
    IF m <= 1 THEN 0 ELSE DaysBeforeMonth(y, m - 1) + DaysInMonth(y, m - 1)

\* datetime(y, m, d) raises ValueError outside these ranges.
ValidYMD(y, m, d) ==
    /\ y >= 1 /\ y <= 9999
    /\ m >= 1 /\ m <= 12
    /\ d >= 1 /\ d <= DaysInMonth(y, m)

\* datetime.toordinal(): days since 0001-01-01, that day being 1.
Ordinal(y, m, d) ==
    (y - 1) * 365 + ((y - 1) \div 4) - ((y - 1) \div 100) + ((y - 1) \div 400)
    + DaysBeforeMonth(y, m) + d

\* TP_TIMEZONE.localize(datetime(y, m, d)): midnight of that day.
Midnight(y, m, d) == 2 * Ordinal(y, m, d)

\* The three outcomes of a call: a value, None, or an exception.
Resolved(t) == [tag |-> "date", at |-> t]
Absent == [tag |-> "none", at |-> 0]
Raised == [tag |-> "raise", at |-> 0]

\* datetime(year, month, day) at lines 29 and 37.
MakeDate(y, m, d) ==
    IF ValidYMD(y, m, d) THEN Resolved(Midnight(y, m, d)) ELSE Raised

parse_taiwan_date(date_str) ==
    IF date_str = NoDateText THEN Absent
    ELSE IF date_str.ydigits = 4 /\ date_str.sep \in {".", "/", "-"}
         THEN MakeDate(date_str.y, date_str.m, date_str.d)
    ELSE IF date_str.ydigits = 3 /\ date_str.sep \in {".", "/", "-"}
         THEN MakeDate(date_str.y + MINGUO_OFFSET, date_str.m, date_str.d)
    ELSE Absent

----------------------------------------------------------------------------
(* urllib.parse.urljoin against a base url that is a site root.  An href   *)
(* is [form, origin, ref]: "relative" (news.php?id=1), "rooted"            *)
(* (/news.php?id=1), "absolute" (scheme and origin given; javascript: urls *)
(* are of this form) or "fragment" (the bare "#").                         *)

urljoin(base_url, href) ==
    CASE href.form = "absolute" -> <<href.origin, href.ref>>
      [] href.form = "fragment" -> <<base_url[1], "">>
      [] OTHER -> <<base_url[1], href.ref>>

\* "javascript" in href.lower()
HasJavascript(href) == Lower(href.origin) = "javascript:"

----------------------------------------------------------------------------
(* The site adapters.  A page is the sequence of its anchors (a href=...)  *)
(* in document order; an anchor is [text, href, ancestors], ancestors[i]   *)
(* being the date text that the flattened text of the anchor's i-th        *)
(* enclosing element holds (NoDateText when it holds none).                *)

NEXT_LABEL == <<"xia", "yi", "ye">>

XINGYA_WALK == 4
XINGYA_MIN_TITLE == 4
NSS_WALK == 3
NSS_MIN_TITLE == 4

\* re.search(r'\d{4}-\d{2}-\d{2}', row_text)
XingyaDateMatch(t) == t.ydigits = 4 /\ t.sep = "-"

\* re.search(r'\d{4}[-/]\d{2}[-/]\d{2}', row_text)
NssDateMatch(t) == t.ydigits = 4 /\ t.sep \in {"-", "/"}

Min(a, b) == IF a < b THEN a ELSE b

\* The ancestor walk of lines 151-160: the closest of the first four
\* enclosing elements whose text holds a date, or None.
XingyaFindDate(ancestors) ==
    LET hits == {i \in 1..Min(XINGYA_WALK, Len(ancestors)) :
                    XingyaDateMatch(ancestors[i])}
    IN  IF hits = {} THEN NoDateText
        ELSE ancestors[CHOOSE i \in hits : \A j \in hits : i <= j]

\* The ancestor walk of lines 208-215, three levels.
NssFindDate(ancestors) ==
    LET hits == {i \in 1..Min(NSS_WALK, Len(ancestors)) :
                    NssDateMatch(ancestors[i])}
    IN  IF hits = {} THEN NoDateText
        ELSE ancestors[CHOOSE i \in hits : \A j \in hits : i <= j]

MakeItem(school, link, found_date) ==
    [school |-> school.name, date |-> found_date, title |-> link.text,
     url |-> urljoin(school.base_url, link.href)]

\* Lines 142-169: the candidates of a page, before deduplication.
RECURSIVE XingyaItems(_, _)
XingyaItems(school, html) ==
    IF html = <<>> THEN <<>>
    ELSE LET link == Head(html)
             found_date == XingyaFindDate(link.ancestors)
             rest == XingyaItems(school, Tail(html))
         IN  IF Len(link.text) < XINGYA_MIN_TITLE THEN rest
             ELSE IF found_date = NoDateText THEN rest
             ELSE <<MakeItem(school, link, found_date)>> \o rest

\* Lines 205-225.
RECURSIVE NssItems(_, _)
NssItems(school, html) ==
    IF html = <<>> THEN <<>>
    ELSE LET a_tag == Head(html)
             found_date == NssFindDate(a_tag.ancestors)
             rest == NssItems(school, Tail(html))
         IN  IF found_date = NoDateText THEN rest
             ELSE IF ~(Len(a_tag.text) > NSS_MIN_TITLE) THEN rest
             ELSE <<MakeItem(school, a_tag, found_date)>> \o rest

\* Lines 171-177 and 227-232: keep the first item of every url.
RECURSIVE Unique(_, _)
Unique(items, seen) ==
    IF items = <<>> THEN <<>>
    ELSE IF Head(items).url \in seen THEN Unique(Tail(items), seen)
    ELSE <<Head(items)>> \o Unique(Tail(items), seen \cup {Head(items).url})

\* The comparison with the listing url left out.
CycleGuardMissing(full_url, list_url) == TRUE

\* Line 192: a next-page url counts only when it differs from the listing url.
CycleGuard(full_url, list_url) == full_url # list_url

\* Lines 186-192: is this anchor a usable next-page link?
IsNextLink(school, link) ==
    /\ Contains(link.text, NEXT_LABEL)
    /\ ~HasJavascript(link.href)
    /\ link.href.form # "fragment"
    /\ CycleGuard(urljoin(school.base_url, link.href), school.list_url)

\* Lines 180-195: the url of the first usable next-page link, or None.
RECURSIVE XingyaNextUrl(_, _)
XingyaNextUrl(school, html) ==
    IF html = <<>> THEN None
    ELSE IF IsNextLink(school, Head(html))
         THEN urljoin(school.base_url, Head(html).href)
    ELSE XingyaNextUrl(school, Tail(html))

_parse_xingya(school, html) ==
    [items |-> Unique(XingyaItems(school, html), {}),
     next_url |-> XingyaNextUrl(school, html)]

_parse_nss(school, html) ==
    [items |-> Unique(NssItems(school, html), {}), next_url |-> None]

\* "syajh" in self.base_url, on the origins of SCHOOL_LIST.
HasSyajh(base_url) == base_url[1] = "https://www.syajh.tp.edu.tw"

\* "nss" in self.list_url, on the listing paths of SCHOOL_LIST.
HasNss(list_url) ==
    list_url[2] = "nss/main/freeze/5a9759adef37531ea27bf1b0/Cqfg8H21612"

\* Lines 82-87: the adapter is picked by a substring of the site's urls.
ParsePage(school, html) ==
    IF HasSyajh(school.base_url) THEN _parse_xingya(school, html)
    ELSE IF HasNss(school.list_url) THEN _parse_nss(school, html)
    ELSE [items |-> <<>>, next_url |-> None]

----------------------------------------------------------------------------
(* SchoolScraper.log and the filter loop of fetch_data (lines 91-114).     *)
(* A log line is [kind, page, title, date, url, n], the fields a kind does *)
(* not use being empty; the clock prefix and the site name of line 53 are  *)
(* left out.                                                               *)

KEYWORDS == << <<"yu", "qiu">>, <<"chang", "di">> >>

SHORT_TITLE_LEN == 15

Entry(kind, page, title, date, url, n) ==
    [kind |-> kind, page |-> page, title |-> title, date |-> date,
     url |-> url, n |-> n]

\* The lines of lines 103, 111 and 114, with debug_info of line 100.
Decision(kind, title, date) == Entry(kind, 0, title, date, None, 0)

\* Lines 50-53: a line is kept only in debug mode.
log(logs, debug, entry) == IF debug THEN Append(logs, entry) ELSE logs

\* Line 99; the two dots that mark a cut title are the token "..".
ShortTitle(title) ==
    IF Len(title) > SHORT_TITLE_LEN
    THEN SubSeq(title, 1, SHORT_TITLE_LEN) \o <<"..">>
    ELSE title

\* Line 106.
HasKeyword(title) == \E i \in 1..Len(KEYWORDS) : Contains(title, KEYWORDS[i])

\* Line 92: get_current_time() - timedelta(days=days_limit), in half days.
LimitDate(now, days_limit) == now - 2 * days_limit

\* Line 108.
WithinWindow(item_date, limit_date) == item_date > limit_date

\* One pass of the loop body, lines 96-114.  acc is [results, logs, raised];
\* once a call has raised, the rest of the loop is not run.
FilterOne(acc, item, limit_date, debug) ==
    LET item_date == parse_taiwan_date(item.date)
        short_title == ShortTitle(item.title)
        kept == [school |-> item.school, date |-> item.date,
                 title |-> item.title, url |-> item.url,
                 parsed_date |-> item_date.at]
    IN  IF acc.raised THEN acc
        ELSE IF item_date.tag = "raise" THEN [acc EXCEPT !.raised = TRUE]
        ELSE IF item_date.tag = "none"
             THEN [acc EXCEPT !.logs =
                      log(@, debug, Decision("unparseable", short_title, item.date))]
        ELSE IF WithinWindow(item_date.at, limit_date)
             THEN IF HasKeyword(item.title)
                  THEN [acc EXCEPT
                          !.results = Append(@, kept),
                          !.logs = log(@, debug,
                                       Decision("keep", short_title, item.date))]
                  ELSE acc
        ELSE IF HasKeyword(item.title)
             THEN [acc EXCEPT !.logs =
                      log(@, debug, Decision("expired", short_title, item.date))]
        ELSE acc

RECURSIVE FilterItems(_, _, _, _)
FilterItems(acc, raw_items, limit_date, debug) ==
    IF raw_items = <<>> THEN acc
    ELSE FilterItems(FilterOne(acc, Head(raw_items), limit_date, debug),
                     Tail(raw_items), limit_date, debug)

\* The loop condition with the comparison off by one.
WhileCondOffByOne(url, n, max_pages) == url # None /\ n <= max_pages

\* Line 66: the condition of the pagination loop.
WhileCond(url, n, max_pages) == url # None /\ n < max_pages

\* A bad status handled like an exception: the collected items are dropped.
OnBadStatusDropsAll(results) == <<>>

\* Line 76 then 124: what fetch_data returns after a non-200 status.
OnBadStatus(results) == results

\* Lines 126-128: what fetch_data returns after an exception.
OnException(results) == <<>>

\* Line 127: the line logged for an exception.
FatalLog(logs, debug, e) ==
    log(logs, debug, Entry("fatal", 0, <<e>>, NoDateText, None, 0))

----------------------------------------------------------------------------
(* The sort of line 276.  DataFrame.sort_values sorts with kind='quicksort' *)
(* unless told otherwise, which orders rows of equal key in no promised    *)
(* order: every arrangement that is descending by parsed_date is a         *)
(* possible outcome.                                                       *)

RemoveAt(seq, i) == SubSeq(seq, 1, i - 1) \o SubSeq(seq, i + 1, Len(seq))

MaxDate(items) ==
    CHOOSE t \in {items[i].parsed_date : i \in 1..Len(items)} :
        \A i \in 1..Len(items) : items[i].parsed_date <= t

RECURSIVE sort_values(_)
sort_values(items) ==
    IF items = <<>> THEN {<<>>}
    ELSE LET top == {i \in 1..Len(items) : items[i].parsed_date = MaxDate(items)}
             firsts == {i \in top : \A j \in top : j < i => items[j] # items[i]}
         IN  UNION {{<<items[i]>> \o rest : rest \in sort_values(RemoveAt(items, i))}
                    : i \in firsts}

----------------------------------------------------------------------------
(* The inputs: the sites, the settings of the sidebar, the clock and the   *)
(* pages the sites may serve.                                              *)

MaxPages == 3

XINGYA ==
    [name |-> "xingya",
     base_url |-> <<"https://www.syajh.tp.edu.tw", "">>,
     list_url |-> <<"https://www.syajh.tp.edu.tw", "more_infor.php?p_id=36">>]

\* The first of the two entries that line 253 keeps commented out.
RENAI ==
    [name |-> "renai",
     base_url |-> <<"https://www.japs.tp.edu.tw", "">>,
     list_url |-> <<"https://www.japs.tp.edu.tw",
                    "nss/main/freeze/5a9759adef37531ea27bf1b0/Cqfg8H21612">>]

\* SCHOOL_LIST as it stands, and with the second site switched on.
SchoolLists == {<<XINGYA>>, <<XINGYA, RENAI>>}

DateText(ydigits, sep, y, m, d) ==
    [ydigits |-> ydigits, sep |-> sep, y |-> y, m |-> m, d |-> d]

d_may == DateText(4, "-", 2025, 5, 1)
d_jun == DateText(4, "-", 2025, 6, 15)
d_feb == DateText(4, "-", 2025, 2, 1)
d_old == DateText(4, "-", 2024, 1, 1)
d_bad == DateText(4, "-", 2025, 13, 1)
d_slash == DateText(4, "/", 2025, 5, 20)
d_minguo == DateText(3, "-", 114, 5, 1)

\* The readings of the clock: 2025-05-31 at noon and 2025-06-01 at midnight.
\* The clock runs on during a run, so a later page may read a later time.
Clock == {Midnight(2025, 6, 1) - 1, Midnight(2025, 6, 1)}

DaysLimits == {120, 365}

t_yq == <<"yu", "qiu", "chang", "kai", "fang">>
t_cd == <<"chang", "di", "zu", "jie">>
t_no == <<"jia", "zhang", "hui", "tong", "zhi">>
t_rev == <<"qiu", "yu", "di", "chang", "biao">>
t_short == <<"yu", "qiu", "sai">>

Rel(ref) == [form |-> "relative", origin |-> "", ref |-> ref]
Rooted(ref) == [form |-> "rooted", origin |-> "", ref |-> ref]
Abs(origin, ref) == [form |-> "absolute", origin |-> origin, ref |-> ref]
Fragment == [form |-> "fragment", origin |-> "", ref |-> ""]

Anchor(text, href, ancestors) ==
    [text |-> text, href |-> href, ancestors |-> ancestors]

a_keep == Anchor(t_yq, Rel("news.php?id=1"), <<d_may>>)
a_keep2 == Anchor(t_cd, Rel("news.php?id=2"), <<NoDateText, d_jun>>)
a_dup == Anchor(t_cd, Rooted("news.php?id=1"), <<d_may>>)
a_nokw == Anchor(t_no, Rel("news.php?id=3"), <<d_may>>)
a_edge == Anchor(t_yq, Rel("news.php?id=4"), <<d_feb>>)
a_old == Anchor(t_cd, Rel("news.php?id=5"), <<d_old>>)
a_oldno == Anchor(t_rev, Rel("news.php?id=6"), <<d_old>>)
a_bad == Anchor(t_yq, Rel("news.php?id=7"), <<d_bad>>)
a_short == Anchor(t_short, Rel("news.php?id=8"), <<d_may>>)
a_deep == Anchor(t_yq, Rel("news.php?id=9"),
                 <<NoDateText, NoDateText, NoDateText, d_minguo, d_may>>)
a_slash == Anchor(t_yq, Rel("news.php?id=10"), <<d_slash>>)
a_far == Anchor(t_yq, Rel("news.php?id=11"),
                <<NoDateText, NoDateText, NoDateText, d_may>>)

n_p2 == Anchor(NEXT_LABEL, Rel("more_infor.php?p_id=36&page=2"), <<>>)
n_p3 == Anchor(NEXT_LABEL, Rel("more_infor.php?p_id=36&page=3"), <<>>)
n_self == Anchor(NEXT_LABEL, Rooted("more_infor.php?p_id=36"), <<>>)
n_js == Anchor(NEXT_LABEL, Abs("JavaScript:", ";"), <<>>)
n_hash == Anchor(NEXT_LABEL, Fragment, <<>>)

Bodies ==
    { <<a_keep, a_dup, a_keep2>>,
      <<a_nokw, a_edge, a_old, a_oldno>>,
      <<a_keep, a_bad, a_keep2>>,
      <<a_short, a_deep, a_dup>> }

Navs ==
    { <<>>, <<n_p2>>, <<n_self>>, <<n_self, n_p3>>, <<n_js, n_hash>> }

XingyaPages == {body \o nav : body \in Bodies, nav \in Navs}

NssPages ==
    { <<a_slash, a_far, a_dup>>,
      <<a_edge, a_bad>>,
      <<a_keep, a_nokw, n_p2>> }

Pages(school) == IF HasSyajh(school.base_url) THEN XingyaPages ELSE NssPages

BadStatuses == {404}

Exceptions == {"Timeout", "ConnectionError"}

----------------------------------------------------------------------------
(* The state.                                                              *)

VARIABLES
    schools,            \* SCHOOL_LIST
    debug_mode,         \* line 242
    days_limit_input,   \* line 243
    max_pages_input,    \* line 245
    current_time,       \* the latest reading of get_current_time() (lines 248, 92)
    pc,                 \* "start": at line 265; "fetch": at line 66; "done"
    idx,                \* the position of the loop of line 265 in schools
    current_url,        \* fetch_data's locals and the scraper's logs
    page_num,
    all_results,
    logs,
    data,               \* what the last fetch_data returned (line 268)
    all_data,
    all_logs,
    df,                 \* the sorted frame of line 276, None before
    fetched,            \* history: the urls requested in this fetch_data run
    last,               \* history: the last pass of the loop of line 66
    seen_pages,         \* history: the pages this fetch_data run has read
    returns,            \* history: what fetch_data returned, site by site
    faulted             \* history: the sites whose fetch_data caught an exception

vars == <<schools, debug_mode, days_limit_input, max_pages_input, current_time,
          pc, idx, current_url, page_num, all_results, logs, data, all_data,
          all_logs, df, fetched, last, seen_pages, returns, faulted>>

settings == <<schools, debug_mode, days_limit_input, max_pages_input>>

NoLast ==
    [event |-> "none", site |-> 0, page |-> 0, before |-> <<>>, html |-> <<>>,
     nlogs |-> 0, now |-> 0]

Init ==
    /\ schools \in SchoolLists
    /\ debug_mode \in BOOLEAN
    /\ days_limit_input \in DaysLimits
    /\ max_pages_input \in 1..MaxPages
    /\ current_time \in Clock
    /\ pc = "start"
    /\ idx = 1
    /\ current_url = None
    /\ page_num = 0
    /\ all_results = <<>>
    /\ logs = <<>>
    /\ data = <<>>
    /\ all_data = <<>>
    /\ all_logs = <<>>
    /\ df = None
    /\ fetched = <<>>
    /\ last = NoLast
    /\ seen_pages = <<>>
    /\ returns = <<>>
    /\ faulted = {}

----------------------------------------------------------------------------
(* The operations.                                                         *)

School == schools[idx]

\* Lines 266 and 60-62: the scraper of the next site is built and
\* fetch_data starts.
StartSite ==
    /\ pc = "start"
    /\ idx <= Len(schools)
    /\ pc' = "fetch"
    /\ current_url' = School.list_url
    /\ page_num' = 0
    /\ all_results' = <<>>
    /\ logs' = <<>>
    /\ fetched' = <<>>
    /\ last' = NoLast
    /\ seen_pages' = <<>>
    /\ UNCHANGED <<settings, current_time, idx, data, all_data, all_logs, df,
                   returns, faulted>>

\* fetch_data returns (result, lines) and lines 269-270 merge them.
Return(result, lines) ==
    /\ pc' = "start"
    /\ idx' = idx + 1
    /\ logs' = lines
    /\ data' = result
    /\ returns' = Append(returns, result)
    /\ all_data' = all_data \o result
    /\ all_logs' = [n \in (DOMAIN all_logs) \cup {School.name} |->
                       IF n = School.name THEN lines ELSE all_logs[n]]
    /\ UNCHANGED <<settings, df>>

Reading(url, n) == Entry("reading", n, <<>>, NoDateText, url, 0)

\* One pass of the loop of line 66 in which requests.get raises
\* (a timeout, a refused connection): lines 126-128.
FetchRaises(e) ==
    /\ pc = "fetch"
    /\ WhileCond(current_url, page_num, max_pages_input)
    /\ page_num' = page_num + 1
    /\ fetched' = Append(fetched, current_url)
    /\ last' = [event |-> "raise", site |-> idx, page |-> page_num + 1,
                before |-> all_results, html |-> <<>>, nlogs |-> Len(logs),
                now |-> 0]
    /\ faulted' = faulted \cup {idx}
    /\ UNCHANGED <<current_time, current_url, all_results, seen_pages>>
    /\ Return(OnException(all_results),
              FatalLog(log(logs, debug_mode, Reading(current_url, page_num + 1)),
                       debug_mode, e))

\* One pass in which the response has a status other than 200: lines 74-76.
FetchBadStatus(status) ==
    /\ pc = "fetch"
    /\ WhileCond(current_url, page_num, max_pages_input)
    /\ page_num' = page_num + 1
    /\ fetched' = Append(fetched, current_url)
    /\ last' = [event |-> "status", site |-> idx, page |-> page_num + 1,
                before |-> all_results, html |-> <<>>, nlogs |-> Len(logs),
                now |-> 0]
    /\ UNCHANGED <<current_time, current_url, all_results, seen_pages, faulted>>
    /\ Return(OnBadStatus(all_results),
              log(log(logs, debug_mode, Reading(current_url, page_num + 1)),
                  debug_mode,
                  Entry("bad_status", page_num + 1, <<>>, NoDateText, None, status)))

\* One pass in which the response is 200 and carries the page html:
\* lines 67-122, and the return of line 124 or 128 when the loop ends.
\* now is what get_current_time() reads at line 92 in this pass; the clock
\* does not run backwards.
FetchPage(html, now) ==
    /\ pc = "fetch"
    /\ now >= current_time
    /\ current_time' = now
    /\ WhileCond(current_url, page_num, max_pages_input)
    /\ LET n == page_num + 1
           parsed == ParsePage(School, html)
           logs1 == log(logs, debug_mode, Reading(current_url, n))
           logs2 == IF parsed.next_url # None
                    THEN log(logs1, debug_mode,
                             Entry("next_link", 0, <<>>, NoDateText,
                                   parsed.next_url, 0))
                    ELSE logs1
           logs3 == log(logs2, debug_mode,
                        Entry("parsed", n, <<>>, NoDateText, parsed.next_url,
                              Len(parsed.items)))
           acc == FilterItems([results |-> all_results, logs |-> logs3,
                               raised |-> FALSE],
                              parsed.items,
                              LimitDate(now, days_limit_input),
                              debug_mode)
       IN  /\ page_num' = n
           /\ fetched' = Append(fetched, current_url)
           /\ all_results' = acc.results
           /\ seen_pages' = Append(seen_pages, [html |-> html, now |-> now])
           /\ last' = [event |-> IF acc.raised THEN "fault" ELSE "ok",
                       site |-> idx, page |-> n, before |-> all_results,
                       html |-> html, nlogs |-> Len(logs3), now |-> now]
           /\ IF acc.raised
              THEN /\ Return(OnException(acc.results),
                             FatalLog(acc.logs, debug_mode, "ValueError"))
                   /\ faulted' = faulted \cup {idx}
                   /\ UNCHANGED current_url
              ELSE /\ current_url' = parsed.next_url
                   /\ UNCHANGED faulted
                   /\ IF parsed.next_url = None
                      THEN Return(acc.results,
                                  log(acc.logs, debug_mode,
                                      Entry("no_next", 0, <<>>, NoDateText, None, 0)))
                      ELSE IF WhileCond(parsed.next_url, n, max_pages_input)
                      THEN /\ logs' = acc.logs
                           /\ UNCHANGED <<settings, pc, idx, data, all_data,
                                          all_logs, df, returns>>
                      ELSE Return(acc.results, acc.logs)

\* Lines 272-276: after the last site, the merged list is sorted.
Sort ==
    /\ pc = "start"
    /\ idx > Len(schools)
    /\ pc' = "done"
    /\ IF all_data = <<>> THEN df' = None ELSE df' \in sort_values(all_data)
    /\ UNCHANGED <<settings, current_time, idx, current_url, page_num,
                   all_results, logs, data,
                   all_data, all_logs, fetched, last, seen_pages, returns,
                   faulted>>

\* The pages the site being read may answer with.
Served == IF pc = "fetch" THEN Pages(School) ELSE {}

Next ==
    \/ StartSite
    \/ \E e \in Exceptions : FetchRaises(e)
    \/ \E status \in BadStatuses : FetchBadStatus(status)
    \/ \E html \in Served, now \in Clock : FetchPage(html, now)
    \/ Sort

Spec == Init /\ [][Next]_vars

----------------------------------------------------------------------------
(* What the properties below speak of.                                     *)

\* The site of the last pass of the loop, and the candidates its adapter
\* emitted for the page of that pass.
LastSchool == schools[last.site]
LastRaw == ParsePage(LastSchool, last.html).items

\* The filter as the specification words it: the date resolves, it is
\* strictly later than now - max_age_days, and the title has a keyword.
Qualifies(item, now) ==
    LET r == parse_taiwan_date(item.date)
    IN  /\ r.tag = "date"
        /\ r.at > now - 2 * days_limit_input
        /\ \E k \in {<<"yu", "qiu">>, <<"chang", "di">>} : Contains(item.title, k)

Stamp(item) ==
    [school |-> item.school, date |-> item.date, title |-> item.title,
     url |-> item.url, parsed_date |-> parse_taiwan_date(item.date).at]

RECURSIVE Qualifying(_, _)
Qualifying(items, now) ==
    IF items = <<>> THEN <<>>
    ELSE (IF Qualifies(Head(items), now) THEN <<Stamp(Head(items))>> ELSE <<>>)
         \o Qualifying(Tail(items), now)

\* The qualifying candidates of a sequence of pages of one site, in order.
RECURSIVE QualifyingOfPages(_, _)
QualifyingOfPages(school, pages) ==
    IF pages = <<>> THEN <<>>
    ELSE Qualifying(ParsePage(school, Head(pages).html).items, Head(pages).now)
         \o QualifyingOfPages(school, Tail(pages))

\* The items the last pass added to what fetch_data hands back: the part of
\* the returned list (of the accumulator, while the loop still runs) beyond
\* what the earlier pages had given.
Handed == IF pc = "fetch" THEN all_results ELSE data
AcceptedFromLastPage ==
    IF Len(Handed) <= Len(last.before) THEN <<>>
    ELSE SubSeq(Handed, Len(last.before) + 1, Len(Handed))

DecisionKinds == {"keep", "unparseable", "expired", "no_keyword"}

\* The decision lines the last pass wrote.
LastDecisions ==
    SelectSeq(SubSeq(logs, last.nlogs + 1, Len(logs)),
              LAMBDA e : e.kind \in DecisionKinds)

Malformed(date) == parse_taiwan_date(date).tag = "raise"

Returned == pc # "fetch" /\ last.event # "none"

NextAnchors(html) == {i \in 1..Len(html) : Contains(html[i].text, NEXT_LABEL)}

\* Every next-page anchor of the page leads to the listing url, and there is one.
OnlySelfNext(school, html) ==
    /\ NextAnchors(html) # {}
    /\ \A i \in NextAnchors(html) :
          urljoin(school.base_url, html[i].href) = school.list_url

RECURSIVE Flatten(_)
Flatten(seqs) == IF seqs = <<>> THEN <<>> ELSE Head(seqs) \o Flatten(Tail(seqs))

Count(seq, x) == Cardinality({i \in 1..Len(seq) : seq[i] = x})

SameItems(a, b) ==
    /\ Len(a) = Len(b)
    /\ \A i \in 1..Len(a) : Count(a, a[i]) = Count(b, a[i])

Descending(seq) ==
    \A i, j \in 1..Len(seq) : i < j => seq[i].parsed_date >= seq[j].parsed_date

\* The one descending arrangement that keeps rows of equal date in the
\* order of arrival.
RECURSIVE StableDescending(_)
StableDescending(items) ==
    IF items = <<>> THEN <<>>
    ELSE LET top == {i \in 1..Len(items) : items[i].parsed_date = MaxDate(items)}
             i == CHOOSE k \in top : \A j \in top : k <= j
         IN  <<items[i]>> \o StableDescending(RemoveAt(items, i))

HasFatal(lines) == \E i \in 1..Len(lines) : lines[i].kind = "fatal"

----------------------------------------------------------------------------
(* The properties.                                                         *)

\* C1: in one fetch_data run the number of page fetches never exceeds
\* max_pages, whatever the pages answer.
C1_FetchesWithinMaxPages == Len(fetched) <= max_pages_input

\* C1 witness: max_pages pages were fetched, each from a different locator,
\* and the last one still named a further valid next page.
C1_Witness ==
    /\ max_pages_input = MaxPages
    /\ Len(fetched) = max_pages_input
    /\ \A i, j \in 1..Len(fetched) : i # j => fetched[i] # fetched[j]
    /\ last.event = "ok"
    /\ ParsePage(LastSchool, last.html).next_url # None

\* C2 (as claimed): when the fetch of page N >= 2 raises, fetch_data still
\* returns the items accepted from pages 1..N-1.
C2_RaisedFetchKeepsItems ==
    (last.event = "raise" /\ last.page >= 2) => data = last.before

\* C3: a non-200 status on page N ends the run of that site at once,
\* without an exception, and returns exactly the qualifying candidates of
\* pages 1..N-1 (none for N = 1).
C3_BadStatusKeepsItems ==
    last.event = "status" =>
        /\ pc # "fetch"
        /\ Len(fetched) = last.page
        /\ last.site \notin faulted
        /\ data = QualifyingOfPages(LastSchool, seen_pages)
        /\ Len(seen_pages) = last.page - 1

\* C3 witness: a bad status on a page after the first, items in hand.
C3_Witness == last.event = "status" /\ last.page >= 2 /\ data # <<>>

\* C4 (as claimed, and with the log switched on): every candidate of a page
\* gets exactly one decision line.
C4_OneDecisionPerCandidate ==
    (debug_mode /\ last.event = "ok") => Len(LastDecisions) = Len(LastRaw)

\* C5 (as claimed): the list fetch_data returns holds no url twice.
C5_ReturnedUrlsUnique ==
    Returned => \A i, j \in 1..Len(data) : i # j => data[i].url # data[j].url

\* C6 (as claimed): a candidate whose date has a malformed number is set
\* aside without a fault, and the run's other qualifying items are returned.
C6_MalformedDateIsAbsent ==
    (last.event \in {"ok", "fault"}
        /\ \E i \in 1..Len(LastRaw) : Malformed(LastRaw[i].date))
    => /\ last.event = "ok"
       /\ Handed = last.before \o Qualifying(LastRaw, last.now)

\* C7 (as claimed): the items accepted from a page are exactly its
\* qualifying candidates, in the adapter's order.
C7_AcceptedAreTheQualifying ==
    last.event \in {"ok", "fault"} => AcceptedFromLastPage = Qualifying(LastRaw, last.now)

\* On a page that the filter loop ran through to its end, the items added
\* are exactly the qualifying candidates, in the adapter's order.
FilterPolicyOnCompletedPages ==
    last.event = "ok" => AcceptedFromLastPage = Qualifying(LastRaw, last.now)

\* A reachable case of the clock running on between two pages: the same
\* page is read twice, its item dated on the cutoff is kept by the first
\* pass and expired by the second.
ClockCrossesCutoff ==
    /\ Len(seen_pages) = 2
    /\ seen_pages[1].html = seen_pages[2].html
    /\ seen_pages[1].now < seen_pages[2].now
    /\ last.event = "ok"
    /\ Len(last.before) = 1
    /\ Handed = last.before

\* C8: after page 1 no fetch goes to the listing url; a page whose next-page
\* anchors all lead to the listing url ends the run without an exception,
\* with the qualifying candidates so far returned.
C8_ListingUrlNotRevisited ==
    /\ \A i \in 2..Len(fetched) : fetched[i] # schools[last.site].list_url
    /\ (last.event = "ok" /\ OnlySelfNext(LastSchool, last.html)) =>
          /\ pc # "fetch"
          /\ last.site \notin faulted
          /\ data = QualifyingOfPages(LastSchool, seen_pages)

\* C8 witness: such a page was read before max_pages was reached, on a
\* later page than the first, and items are returned.
C8_Witness ==
    /\ last.event = "ok"
    /\ OnlySelfNext(LastSchool, last.html)
    /\ last.page >= 2
    /\ last.page < max_pages_input
    /\ pc = "start"
    /\ data # <<>>

\* C9 (as claimed): the merged output is descending by date and rows of
\* equal date keep their order of arrival.
C9_SortedAndStable ==
    (pc = "done" /\ all_data # <<>>) => df = StableDescending(all_data)

\* Whatever happens in one site, the loop of line 265 goes through every
\* site, and what the sites returned is all in the sorted output.
RunCompletes ==
    /\ \A s \in faulted : s < idx
    /\ pc = "done" =>
          /\ Len(returns) = Len(schools)
          /\ DOMAIN all_logs = {schools[s].name : s \in 1..Len(schools)}
          /\ all_data = Flatten(returns)
          /\ all_data # <<>> => SameItems(df, all_data) /\ Descending(df)

\* C10 (as claimed): an exception in one site's fetch_data does not leave
\* fetch_data, a fatal line is recorded in that site's log, and the run
\* goes on to every remaining site, whose items are in the merged output.
C10_FaultContainedAndLogged ==
    /\ RunCompletes
    /\ \A s \in faulted : HasFatal(all_logs[schools[s].name])

====
